---- MODULE Spec2Model ----
(***************************************************************************)
(* A model of the playback engine of src/App.tsx: the playlist, the        *)
(* transport state (current index, playing flag, repeat, shuffle), the     *)
(* asynchronous ingestion of file batches, the bulk delete, and the media  *)
(* element the playback effect drives, the signal chain (audio context,    *)
(* analyser, band filters), the filtered and sorted view of the playlist,  *)
(* and the release of the object URLs of deleted tracks.                   *)
(*                                                                         *)
(* One action is one handler of the component together with the render    *)
(* and the effects its state updates cause.  The host's asynchronous      *)
(* parts are actions of their own: a metadata probe resolving, playback   *)
(* progressing, the queued 'ended' event being delivered, the clock, a     *)
(* timer of the bulk delete firing.                                        *)
(***************************************************************************)
EXTENDS Integers, Sequences, FiniteSets

\* ---------------------------------------------------------------- bounds
MaxFiles == 3          \* files ever picked (object URLs ever created)
MaxBatches == 2        \* handleFileChange invocations in flight together
MaxClock == 1          \* largest Date.now() reading
TrackLen == 1          \* playable length of a decodable track, in ticks
MaxBand == 1           \* equalizer bands whose slider is moved: 1..MaxBand

\* ------------------------------------------------------- program constants
NULL == -1             \* currentTrackIndex === null
NONE == 0              \* RepeatMode.NONE
ONE == 1               \* RepeatMode.ONE
ALL == 2               \* RepeatMode.ALL
Pending == -1          \* a probe that has not resolved yet
NumBands == 8          \* eqFrequencies.length

VARIABLES
  playlist,            \* Track[] : sequence of [id, name, artist, duration, url]
  currentTrackIndex,   \* 0-based index into playlist, or NULL
  isPlaying,           \* the playing flag
  currentTime,         \* elapsed time shown by the transport
  duration,            \* total duration shown by the transport
  repeatMode,          \* NONE, ONE, ALL
  isShuffled,          \* the shuffle flag
  selectedTrackIds,    \* Set<string> of track ids
  searchTerm,          \* the filter text
  sortConfig,          \* [key, direction] of the list's order
  eqGains,             \* the stored gain of each equalizer band
  audio,               \* the <audio> element: [src, paused, currentTime]
  playRejected,        \* the last audio.play() promise was rejected
  endedFor,            \* src of the queued, undelivered 'ended' event, or NoSrc
  audioContext,        \* "null" or "open"
  analyserNode,        \* "null" or "node"
  eqFilters,           \* eqFiltersRef.current: the gain of each live band filter
  elementBound,        \* the element already feeds a MediaElementSourceNode
  crashed,             \* an effect threw: the component tree is unmounted
  batches,             \* handleFileChange invocations awaiting Promise.all
  nextUrl,             \* number of object URLs created so far
  revoked,             \* how often URL.revokeObjectURL ran for each object URL
  timers,              \* pending setTimeout callbacks: the URLs each will revoke
  now,                 \* the latest Date.now() reading
  lastOp               \* the last handler run and the state it started from

vars == <<playlist, currentTrackIndex, isPlaying, currentTime, duration,
          repeatMode, isShuffled, selectedTrackIds, searchTerm, sortConfig,
          eqGains, audio, playRejected, endedFor, audioContext, analyserNode,
          eqFilters, elementBound, crashed, batches, nextUrl, revoked, timers,
          now, lastOp>>

\* ------------------------------------------------------------ data model
\* An object URL: its number, and whether the host can decode the file behind it.
Url(n, ok) == [n |-> n, ok |-> ok]
\* audio.src = '' (and the src of an element that never had one)
NoSrc == Url(0, FALSE)

\* Strings are sequences of UTF-16 code units.
\* String.prototype.toLowerCase, on the letters A to Z
LowerUnit(c) == IF c >= 65 /\ c <= 90 THEN c + 32 ELSE c
ToLowerCase(s) == [i \in 1..Len(s) |-> LowerUnit(s[i])]

\* String.prototype.includes
Includes(s, sub) ==
  \E i \in 0..(Len(s) - Len(sub)) : SubSeq(s, i + 1, i + Len(sub)) = sub

\* a < b on strings: by code units, a proper prefix before its extensions
RECURSIVE StrLess(_, _)
StrLess(a, b) ==
  IF Len(b) = 0 THEN FALSE
  ELSE IF Len(a) = 0 THEN TRUE
  ELSE IF Head(a) # Head(b) THEN Head(a) < Head(b)
  ELSE StrLess(Tail(a), Tail(b))

\* 'Unknown Artist'
UnknownArtist == <<85, 110, 107, 110, 111, 119, 110, 32, 65, 114, 116, 105, 115, 116>>
\* ' - '
Separator == <<32, 45, 32>>

\* A picked file is given by fileName.split(' - '), fileName being file.name
\* without its extension: one part, or an artist part and the parts of the name.
\* parts.slice(1).join(' - ')
RECURSIVE JoinParts(_)
JoinParts(parts) ==
  IF Len(parts) = 0 THEN <<>>
  ELSE IF Len(parts) = 1 THEN parts[1]
  ELSE parts[1] \o Separator \o JoinParts(Tail(parts))

\* name and artist of a file, as handleFileChange derives them
NameOf(parts) == IF Len(parts) > 1 THEN JoinParts(Tail(parts)) ELSE parts[1]
ArtistOf(parts) == IF Len(parts) > 1 THEN parts[1] ELSE UnknownArtist

\* the files the user picks from: "a", "A", "b" and "B - ab"
FileNames == {<<(<<97>>)>>, <<(<<65>>)>>, <<(<<98>>)>>, <<(<<66>>), <<97, 98>>>>}
\* a file named "a"
PlainFile == <<(<<97>>)>>

\* what the user types into the search box: "", "B", "ab", "z"
SearchTerms == {<<>>, <<66>>, <<97, 98>>, <<122>>}

\* `${Date.now()}-${index}`
TrackId(t, index) == <<t, index>>

\* audio.duration of a decodable file; a probe that fails resolves with 0
ProbedDuration(url) == IF url.ok THEN TrackLen ELSE 0

\* resolve({ id, file, name, artist, duration, url })
Track(t, index, url, parts) ==
  [id |-> TrackId(t, index), name |-> NameOf(parts), artist |-> ArtistOf(parts),
   duration |-> ProbedDuration(url), url |-> url]

\* every id a track can get: a clock reading and an index within a batch
AllIds == (0..MaxClock) \X (0..(MaxFiles - 1))

\* playlist[i] with the source's 0-based index
At(pl, i) == pl[i + 1]

\* Array.prototype.findIndex(t => t.id === id): first match, or -1
RECURSIVE FindFrom(_, _, _)
FindFrom(pl, id, i) ==
  IF i >= Len(pl) THEN -1
  ELSE IF At(pl, i).id = id THEN i
  ELSE FindFrom(pl, id, i + 1)
FindIndex(pl, id) == FindFrom(pl, id, 0)

Ids(pl) == {pl[i].id : i \in 1..Len(pl)}
Urls(pl) == {pl[i].url : i \in 1..Len(pl)}

\* currentTrackIndex !== null ? playlist[currentTrackIndex] : null  (undefined
\* when the index is out of range); HasTrack is the truthiness of that value
HasTrack(pl, idx) == idx # NULL /\ idx >= 0 /\ idx < Len(pl)

\* --------------------------------------------------------------- the view
\* as Matches, with every track passing the filter
MatchesAlways(track, term) == TRUE

\* track.name.toLowerCase().includes(searchTerm.toLowerCase()) ||
\* track.artist.toLowerCase().includes(searchTerm.toLowerCase())
Matches(track, term) ==
  \/ Includes(ToLowerCase(track.name), ToLowerCase(term))
  \/ Includes(ToLowerCase(track.artist), ToLowerCase(term))

\* as Compare, with the direction left out
CompareIgnoresDirection(a, b, cfg) ==
  LET valA == ToLowerCase(a[cfg.key])
      valB == ToLowerCase(b[cfg.key])
  IN IF StrLess(valA, valB) THEN -1
     ELSE IF StrLess(valB, valA) THEN 1
     ELSE 0

\* the comparator handed to sort
Compare(a, b, cfg) ==
  LET direction == IF cfg.direction = "asc" THEN 1 ELSE -1
      valA == ToLowerCase(a[cfg.key])
      valB == ToLowerCase(b[cfg.key])
  IN IF StrLess(valA, valB) THEN -1 * direction
     ELSE IF StrLess(valB, valA) THEN 1 * direction
     ELSE 0

\* Array.prototype.sort is stable: an element goes behind the elements that
\* compare equal to it and came before it
RECURSIVE InsertSorted(_, _, _)
InsertSorted(sorted, x, cfg) ==
  IF Len(sorted) = 0 THEN <<x>>
  ELSE IF Compare(x, Head(sorted), cfg) < 0 THEN <<x>> \o sorted
  ELSE <<Head(sorted)>> \o InsertSorted(Tail(sorted), x, cfg)

RECURSIVE SortBy(_, _)
SortBy(s, cfg) ==
  IF Len(s) = 0 THEN <<>>
  ELSE InsertSorted(SortBy(SubSeq(s, 1, Len(s) - 1), cfg), s[Len(s)], cfg)

\* displayedPlaylist
DisplayedPlaylist(pl, term, cfg) ==
  SortBy(SelectSeq(pl, LAMBDA t : Matches(t, term)), cfg)

\* handleSort: the configuration after the current one
NextSortConfig(current) ==
  IF current.key = "name" /\ current.direction = "asc"
  THEN [key |-> "name", direction |-> "desc"]
  ELSE IF current.key = "name" /\ current.direction = "desc"
  THEN [key |-> "artist", direction |-> "asc"]
  ELSE IF current.key = "artist" /\ current.direction = "asc"
  THEN [key |-> "artist", direction |-> "desc"]
  ELSE [key |-> "name", direction |-> "asc"]

\* ---------------------------------------------------------- media element
\* audio.src = url : the element loads the new resource from its start
LoadSrc(a, url) == [src |-> url, paused |-> TRUE, currentTime |-> 0]

\* audio.pause()
Pause(a) == [a EXCEPT !.paused = TRUE]

\* audio.play() : whether the returned promise is rejected (no source, or a
\* source the host cannot decode)
PlayRejects(a) == a.src = NoSrc \/ ~a.src.ok

\* audio.play() : the element afterwards; an element that has ended restarts
PlayCall(a) ==
  IF a.src = NoSrc THEN a
  ELSE [a EXCEPT !.paused = FALSE,
                 !.currentTime = IF a.currentTime = TrackLen THEN 0 ELSE @]

\* the element is rendering sound
Sounding(a) == a.src # NoSrc /\ a.src.ok /\ ~a.paused /\ a.currentTime < TrackLen

\* the element sits at the end of its resource (audio.ended)
Ended(a) == a.src # NoSrc /\ a.src.ok /\ ~a.paused /\ a.currentTime = TrackLen

\* the queued 'ended' event is the one of the resource the element sits at the end of
NaturalEnd == Ended(audio) /\ endedFor = audio.src

\* what lastOp records: the handler, and for the handlers the properties are
\* about, the state it ran in
Op(name) == [op |-> name, idx |-> currentTrackIndex, len |-> Len(playlist),
             playing |-> isPlaying, atEnd |-> NaturalEnd,
             shown |-> <<currentTime, duration>>]
EnvOp(name) == [op |-> name, idx |-> NULL, len |-> 0, playing |-> FALSE,
                atEnd |-> FALSE, shown |-> <<0, 0>>]

\* ---------------------------------------------------------------- effects
\* as NeedsSetup, without the test for an existing context
NeedsSetupAlways(want, ctx) == want

\* if (!audioContext || audioContext.state === 'closed') setupAudioContext();
\* and the same test at the head of setupAudioContext
NeedsSetup(want, ctx) == want /\ ctx = "null"

\* useEffect(playback) followed by useEffect(teardown), for the state a render
\* commits.  The result is the element, the audio context and the flags after
\* the effects.  setAudioContext inside an effect causes one more render in
\* which the playback effect repeats play() or pause() on the same source;
\* both are idempotent on the element, so one pass gives the settled state.
PlaybackEffect(a, pl, idx, playing) ==
  LET track == IF HasTrack(pl, idx) THEN At(pl, idx) ELSE [url |-> NoSrc]
      want == playing /\ HasTrack(pl, idx)
      a1 == IF want /\ a.src # track.url THEN LoadSrc(a, track.url) ELSE a
      needSetup == NeedsSetup(want, audioContext)
      \* createMediaElementSource throws when the element already feeds a node
      throws == needSetup /\ elementBound
      ctx1 == IF needSetup /\ ~throws THEN "open" ELSE audioContext
      a2 == IF ~want THEN Pause(a)
            ELSE IF throws THEN a1
            ELSE PlayCall(a1)
      built == needSetup /\ ~throws
      \* useEffect(teardown)
      closes == ~throws /\ Len(pl) = 0 /\ ctx1 = "open"
      ctx2 == IF closes THEN "null" ELSE ctx1
  IN [audio |-> a2,
      audioContext |-> ctx2,
      analyserNode |-> IF closes THEN "null"
                       ELSE IF built THEN "node" ELSE analyserNode,
      \* filter.gain.value = 0 for each of eqFrequencies
      eqFilters |-> IF closes THEN <<>>
                    ELSE IF built THEN [i \in 1..NumBands |-> 0] ELSE eqFilters,
      elementBound |-> elementBound \/ (needSetup /\ ~throws),
      crashed |-> throws,
      playRejected |-> IF want /\ ~throws THEN PlayRejects(a1)
                       ELSE IF want THEN playRejected ELSE FALSE]

\* The render after a handler that left the element as a: the playback effect
\* runs when one of its dependencies (currentTrackIndex, playlist, isPlaying)
\* changed; newList says that setPlaylist was given a new array.
Commit(a, pl, idx, playing, newList) ==
  LET run == newList \/ idx # currentTrackIndex \/ playing # isPlaying
      e == PlaybackEffect(a, pl, idx, playing)
  IN /\ playlist' = pl
     /\ currentTrackIndex' = idx
     /\ isPlaying' = playing
     /\ IF run
        THEN /\ audio' = e.audio
             /\ audioContext' = e.audioContext
             /\ analyserNode' = e.analyserNode
             /\ eqFilters' = e.eqFilters
             /\ elementBound' = e.elementBound
             /\ crashed' = e.crashed
             /\ playRejected' = e.playRejected
        ELSE /\ audio' = a
             /\ UNCHANGED <<audioContext, analyserNode, eqFilters, elementBound, crashed, playRejected>>

\* ------------------------------------------------------------------- Init
Init ==
  /\ playlist = <<>>
  /\ currentTrackIndex = NULL
  /\ isPlaying = FALSE
  /\ currentTime = 0
  /\ duration = 0
  /\ repeatMode = NONE
  /\ isShuffled = FALSE
  /\ selectedTrackIds = {}
  /\ searchTerm = <<>>
  /\ sortConfig = [key |-> "name", direction |-> "asc"]
  /\ eqGains = [i \in 1..NumBands |-> 0]
  /\ audio = [src |-> NoSrc, paused |-> TRUE, currentTime |-> 0]
  /\ playRejected = FALSE
  /\ endedFor = NoSrc
  /\ audioContext = "null"
  /\ analyserNode = "null"
  /\ eqFilters = <<>>
  /\ elementBound = FALSE
  /\ crashed = FALSE
  /\ batches = <<>>
  /\ nextUrl = 0
  /\ revoked = [n \in 1..MaxFiles |-> 0]
  /\ timers = <<>>
  /\ now = 0
  /\ lastOp = EnvOp("init")

\* -------------------------------------------------------------- ingestion
\* handleFileChange up to its await: one object URL and one probe per file.
\* The closure's playlist is the one of the render the handler belongs to, so
\* the wasEmpty it computes after the await is decided here.
PickFiles(k, oks, files) ==
  /\ ~crashed
  /\ Len(batches) < MaxBatches
  /\ nextUrl + k <= MaxFiles
  /\ batches' = Append(batches,
        [wasEmpty |-> Len(playlist) = 0,
         urls |-> [i \in 1..k |-> Url(nextUrl + i, oks[i])],
         files |-> files,
         at |-> [i \in 1..k |-> Pending]])
  /\ nextUrl' = nextUrl + k
  /\ lastOp' = EnvOp("pick")
  /\ UNCHANGED <<searchTerm, sortConfig, eqGains, revoked, timers>>
  /\ UNCHANGED <<playlist, currentTrackIndex, isPlaying, currentTime, duration,
                 repeatMode, isShuffled, selectedTrackIds, audio, playRejected,
                 endedFor, audioContext, analyserNode, eqFilters, elementBound, crashed, now>>

PendingProbes(batch) == {i \in 1..Len(batch.at) : batch.at[i] = Pending}

\* onloadedmetadata / onerror of one probe while others of its batch are pending:
\* the promise resolves with the track, whose id holds the clock reading t
\* (Date.now() never runs backwards)
ProbeResolve(b, i, t) ==
  /\ ~crashed
  /\ b \in 1..Len(batches)
  /\ i \in PendingProbes(batches[b])
  /\ PendingProbes(batches[b]) # {i}
  /\ t >= now
  /\ now' = t
  /\ batches' = [batches EXCEPT ![b].at[i] = t]
  /\ lastOp' = EnvOp("probe")
  /\ UNCHANGED <<searchTerm, sortConfig, eqGains, revoked, timers>>
  /\ UNCHANGED <<playlist, currentTrackIndex, isPlaying, currentTime, duration,
                 repeatMode, isShuffled, selectedTrackIds, audio, playRejected,
                 endedFor, audioContext, analyserNode, eqFilters, elementBound, crashed, nextUrl>>

\* as NewTracks, with the files whose probe failed left out
NewTracksDropsFailed(batch) ==
  SelectSeq([j \in 1..Len(batch.urls) |->
               Track(batch.at[j], j - 1, batch.urls[j], batch.files[j])],
            LAMBDA t : t.duration > 0)

\* const newTracks = await Promise.all(trackPromises): the tracks in input order
NewTracks(batch) ==
  [j \in 1..Len(batch.urls) |->
     Track(batch.at[j], j - 1, batch.urls[j], batch.files[j])]

\* [...prev, ...newTracks]
Appended(prev, newTracks) == prev \o newTracks

\* wasEmpty && newTracks.length > 0
AutoPlay(batch, newTracks) == batch.wasEmpty /\ Len(newTracks) > 0

RemoveAt(s, b) == [j \in 1..(Len(s) - 1) |-> IF j < b THEN s[j] ELSE s[j + 1]]

\* The last probe of a batch resolves: Promise.all settles and handleFileChange
\* resumes after its await in the same turn of the event loop.
BatchDone(b, i, t) ==
  /\ ~crashed
  /\ b \in 1..Len(batches)
  /\ PendingProbes(batches[b]) = {i}
  /\ t >= now
  /\ now' = t
  /\ LET batch == [batches[b] EXCEPT !.at[i] = t]
         newTracks == NewTracks(batch)
         auto == AutoPlay(batch, newTracks)
     IN Commit(audio, Appended(playlist, newTracks),
               IF auto THEN 0 ELSE currentTrackIndex,
               IF auto THEN TRUE ELSE isPlaying, TRUE)
  /\ batches' = RemoveAt(batches, b)
  /\ lastOp' = Op("append")
  /\ UNCHANGED <<searchTerm, sortConfig, eqGains, revoked, timers>>
  /\ UNCHANGED <<currentTime, duration, repeatMode, isShuffled,
                 selectedTrackIds, endedFor, nextUrl>>

\* ------------------------------------------------------------ host events
\* Playback advances by one tick and 'timeupdate' reports it; on reaching the
\* end the host queues the 'ended' event, which is delivered later.  Events of
\* the element are delivered in order, so nothing is reported while an 'ended'
\* event is still queued.
Progress ==
  /\ ~crashed
  /\ Sounding(audio)
  /\ endedFor = NoSrc
  /\ audio' = [audio EXCEPT !.currentTime = @ + 1]
  /\ currentTime' = audio.currentTime + 1
  /\ endedFor' = IF audio.currentTime + 1 = TrackLen THEN audio.src ELSE NoSrc
  /\ lastOp' = EnvOp("progress")
  /\ UNCHANGED <<searchTerm, sortConfig, eqGains, revoked, timers>>
  /\ UNCHANGED <<playlist, currentTrackIndex, isPlaying, duration, repeatMode,
                 isShuffled, selectedTrackIds, playRejected, audioContext, analyserNode, eqFilters,
                 elementBound, crashed, batches, nextUrl, now>>

\* 'loadedmetadata' : updateDuration = () => setDuration(audio.duration)
LoadedMetadata ==
  /\ ~crashed
  /\ audio.src # NoSrc /\ audio.src.ok
  /\ duration # TrackLen
  /\ duration' = TrackLen
  /\ lastOp' = EnvOp("loadedmetadata")
  /\ UNCHANGED <<searchTerm, sortConfig, eqGains, revoked, timers>>
  /\ UNCHANGED <<playlist, currentTrackIndex, isPlaying, currentTime, repeatMode,
                 isShuffled, selectedTrackIds, audio, playRejected, endedFor,
                 audioContext, analyserNode, eqFilters, elementBound, crashed, batches, nextUrl, now>>

\* -------------------------------------------------------------- transport
\* as NextStep, with the overflow test off by one (nextIndex > length)
NextStepOverflowsLate(len, idx, playing, shuffled, rep, rnd) ==
  IF len = 0 THEN [idx |-> idx, playing |-> playing]
  ELSE IF shuffled THEN [idx |-> rnd, playing |-> TRUE]
  ELSE LET nextIndex == idx + 1
       IN IF nextIndex > len
          THEN IF rep = ALL THEN [idx |-> 0, playing |-> TRUE]
               ELSE [idx |-> idx, playing |-> FALSE]
          ELSE [idx |-> nextIndex, playing |-> TRUE]

\* as NextStep, wrapping to the first track in every repeat mode
NextStepAlwaysWraps(len, idx, playing, shuffled, rep, rnd) ==
  IF len = 0 THEN [idx |-> idx, playing |-> playing]
  ELSE IF shuffled THEN [idx |-> rnd, playing |-> TRUE]
  ELSE LET nextIndex == idx + 1
       IN IF nextIndex >= len
          THEN [idx |-> 0, playing |-> TRUE]
          ELSE [idx |-> nextIndex, playing |-> TRUE]

\* as NextStep, without the early return on an empty playlist
NextStepOnEmpty(len, idx, playing, shuffled, rep, rnd) ==
  IF shuffled THEN [idx |-> rnd, playing |-> TRUE]
  ELSE LET nextIndex == idx + 1
       IN IF nextIndex >= len
          THEN IF rep = ALL THEN [idx |-> 0, playing |-> TRUE]
               ELSE [idx |-> idx, playing |-> FALSE]
          ELSE [idx |-> nextIndex, playing |-> TRUE]

\* handleNext: the current index and playing flag it sets, for the random
\* index rnd that Math.floor(Math.random() * playlist.length) yields
NextStep(len, idx, playing, shuffled, rep, rnd) ==
  IF len = 0 THEN [idx |-> idx, playing |-> playing]
  ELSE IF shuffled THEN [idx |-> rnd, playing |-> TRUE]
  ELSE LET nextIndex == idx + 1        \* (currentTrackIndex ?? -1) + 1
       IN IF nextIndex >= len
          THEN IF rep = ALL THEN [idx |-> 0, playing |-> TRUE]
               ELSE [idx |-> idx, playing |-> FALSE]
          ELSE [idx |-> nextIndex, playing |-> TRUE]

RandomIndexes == IF Len(playlist) = 0 THEN {0} ELSE 0..(Len(playlist) - 1)

HandleNextBody(rnd) ==
  LET n == NextStep(Len(playlist), currentTrackIndex, isPlaying, isShuffled,
                    repeatMode, rnd)
  IN Commit(audio, playlist, n.idx, n.playing, FALSE)

HandleNext ==
  /\ ~crashed
  /\ \E rnd \in RandomIndexes : HandleNextBody(rnd)
  /\ lastOp' = EnvOp("next")
  /\ UNCHANGED <<searchTerm, sortConfig, eqGains, revoked, timers>>
  /\ UNCHANGED <<currentTime, duration, repeatMode, isShuffled,
                 selectedTrackIds, endedFor, batches, nextUrl, now>>

\* as PrevIndex, stopping at index 0 instead of wrapping
PrevIndexStopsAtFirst(len, idx) ==
  LET prevIndex == (IF idx = NULL THEN 0 ELSE idx) - 1
  IN IF prevIndex < 0 THEN 0 ELSE prevIndex

\* handlePrev: the index it sets
PrevIndex(len, idx) ==
  LET prevIndex == (IF idx = NULL THEN 0 ELSE idx) - 1
  IN IF prevIndex < 0 THEN len - 1 ELSE prevIndex

HandlePrev ==
  /\ ~crashed
  /\ IF Len(playlist) = 0
     THEN UNCHANGED <<playlist, currentTrackIndex, isPlaying, audio,
                      audioContext, analyserNode, eqFilters, elementBound, crashed, playRejected>>
     ELSE Commit(audio, playlist, PrevIndex(Len(playlist), currentTrackIndex),
                 TRUE, FALSE)
  /\ lastOp' = Op("prev")
  /\ UNCHANGED <<searchTerm, sortConfig, eqGains, revoked, timers>>
  /\ UNCHANGED <<currentTime, duration, repeatMode, isShuffled,
                 selectedTrackIds, endedFor, batches, nextUrl, now>>

HandlePlayPause ==
  /\ ~crashed
  /\ IF Len(playlist) = 0
     THEN UNCHANGED <<playlist, currentTrackIndex, isPlaying, audio,
                      audioContext, analyserNode, eqFilters, elementBound, crashed, playRejected>>
     ELSE Commit(audio, playlist,
                 IF currentTrackIndex = NULL THEN 0 ELSE currentTrackIndex,
                 ~isPlaying, FALSE)
  /\ lastOp' = EnvOp("playpause")
  /\ UNCHANGED <<searchTerm, sortConfig, eqGains, revoked, timers>>
  /\ UNCHANGED <<currentTime, duration, repeatMode, isShuffled,
                 selectedTrackIds, endedFor, batches, nextUrl, now>>

\* as HandleSelectTrack, with the index looked up in the displayed list
HandleSelectTrackInView(trackId) ==
  /\ ~crashed
  /\ LET index == FindIndex(DisplayedPlaylist(playlist, searchTerm, sortConfig),
                            trackId)
     IN IF index # -1
        THEN Commit(audio, playlist, index, TRUE, FALSE)
        ELSE UNCHANGED <<playlist, currentTrackIndex, isPlaying, audio,
                         audioContext, analyserNode, eqFilters, elementBound,
                         crashed, playRejected>>
  /\ lastOp' = EnvOp("select")
  /\ UNCHANGED <<searchTerm, sortConfig, eqGains, revoked, timers>>
  /\ UNCHANGED <<currentTime, duration, repeatMode, isShuffled,
                 selectedTrackIds, endedFor, batches, nextUrl, now>>

HandleSelectTrack(trackId) ==
  /\ ~crashed
  /\ LET index == FindIndex(playlist, trackId)
     IN IF index # -1
        THEN Commit(audio, playlist, index, TRUE, FALSE)
        ELSE UNCHANGED <<playlist, currentTrackIndex, isPlaying, audio,
                         audioContext, analyserNode, eqFilters, elementBound, crashed, playRejected>>
  /\ lastOp' = EnvOp("select")
  /\ UNCHANGED <<searchTerm, sortConfig, eqGains, revoked, timers>>
  /\ UNCHANGED <<currentTime, duration, repeatMode, isShuffled,
                 selectedTrackIds, endedFor, batches, nextUrl, now>>

\* as RestartsTrack, testing for the wrong mode
RestartsTrackOnAll(rep) == rep = ALL

\* if (repeatMode === RepeatMode.ONE)
RestartsTrack(rep) == rep = ONE

\* The queued 'ended' event is delivered to handleTrackEnd.  The listener is
\* the one of the latest render, so it reads the current state.  An event
\* queued before a handler rebinds audio.src stays queued: the code neither
\* withdraws it nor compares the ended resource with the current track.
HandleTrackEnd ==
  /\ ~crashed
  /\ endedFor # NoSrc
  /\ endedFor' = NoSrc
  /\ IF RestartsTrack(repeatMode)
     THEN \* audio.currentTime = 0; audio.play();
          LET a == [audio EXCEPT !.currentTime = 0]
          IN /\ audio' = PlayCall(a)
             /\ playRejected' = PlayRejects(a)
             /\ currentTime' = 0
             /\ UNCHANGED <<playlist, currentTrackIndex, isPlaying,
                            audioContext, analyserNode, eqFilters, elementBound, crashed>>
     ELSE /\ \E rnd \in RandomIndexes : HandleNextBody(rnd)
          /\ UNCHANGED currentTime
  /\ lastOp' = Op("ended")
  /\ UNCHANGED <<searchTerm, sortConfig, eqGains, revoked, timers>>
  /\ UNCHANGED <<duration, repeatMode, isShuffled, selectedTrackIds, batches,
                 nextUrl, now>>

\* setRepeatMode(prev => (prev + 1) % 3)
ToggleRepeatMode ==
  /\ ~crashed
  /\ repeatMode' = (repeatMode + 1) % 3
  /\ lastOp' = EnvOp("repeat")
  /\ UNCHANGED <<searchTerm, sortConfig, eqGains, revoked, timers>>
  /\ UNCHANGED <<playlist, currentTrackIndex, isPlaying, currentTime, duration,
                 isShuffled, selectedTrackIds, audio, playRejected, endedFor,
                 audioContext, analyserNode, eqFilters, elementBound, crashed, batches, nextUrl, now>>

ToggleShuffle ==
  /\ ~crashed
  /\ isShuffled' = ~isShuffled
  /\ lastOp' = EnvOp("shuffle")
  /\ UNCHANGED <<searchTerm, sortConfig, eqGains, revoked, timers>>
  /\ UNCHANGED <<playlist, currentTrackIndex, isPlaying, currentTime, duration,
                 repeatMode, selectedTrackIds, audio, playRejected, endedFor,
                 audioContext, analyserNode, eqFilters, elementBound, crashed, batches, nextUrl, now>>


\* -------------------------------------------------------------- selection
\* displayedPlaylist.map(t => t.id)
DisplayedIds == Ids(DisplayedPlaylist(playlist, searchTerm, sortConfig))

HandleToggleSelection(trackId) ==
  /\ ~crashed
  /\ trackId \in DisplayedIds
  /\ selectedTrackIds' = IF trackId \in selectedTrackIds
                         THEN selectedTrackIds \ {trackId}
                         ELSE selectedTrackIds \cup {trackId}
  /\ lastOp' = EnvOp("toggle")
  /\ UNCHANGED <<searchTerm, sortConfig, eqGains, revoked, timers>>
  /\ UNCHANGED <<playlist, currentTrackIndex, isPlaying, currentTime, duration,
                 repeatMode, isShuffled, audio, playRejected, endedFor,
                 audioContext, analyserNode, eqFilters, elementBound, crashed, batches, nextUrl, now>>

AllDisplayedSelected ==
  DisplayedIds # {} /\ DisplayedIds \subseteq selectedTrackIds

HandleToggleSelectAll ==
  /\ ~crashed
  /\ selectedTrackIds' = IF AllDisplayedSelected
                         THEN selectedTrackIds \ DisplayedIds
                         ELSE selectedTrackIds \cup DisplayedIds
  /\ lastOp' = EnvOp("selectall")
  /\ UNCHANGED <<searchTerm, sortConfig, eqGains, revoked, timers>>
  /\ UNCHANGED <<playlist, currentTrackIndex, isPlaying, currentTime, duration,
                 repeatMode, isShuffled, audio, playRejected, endedFor,
                 audioContext, analyserNode, eqFilters, elementBound, crashed, batches, nextUrl, now>>

\* ------------------------------------------------------------ bulk delete
\* currentPlayingTrack && selectedTrackIds.has(currentPlayingTrack.id)
CurrentSelected(pl, idx, sel) == HasTrack(pl, idx) /\ At(pl, idx).id \in sel

\* playlist.filter(track => !selectedTrackIds.has(track.id))
Survivors(pl, sel) == SelectSeq(pl, LAMBDA t : t.id \notin sel)

\* as DeleteIndex, with the numeric index kept instead of re-resolved by id
DeleteIndexKeepsNumber(pl, idx, sel) ==
  IF HasTrack(pl, idx) /\ At(pl, idx).id \notin sel THEN idx ELSE NULL

\* newTrackIndex
DeleteIndex(pl, idx, sel) ==
  IF HasTrack(pl, idx) /\ At(pl, idx).id \notin sel
  THEN FindIndex(Survivors(pl, sel), At(pl, idx).id)
  ELSE NULL

\* as DeleteStops, with playback never stopped
DeleteStopsNever(pl, idx, sel) == FALSE

\* as DeleteStops, without the test for the current track being deleted
DeleteStopsOnlyWhenEmpty(pl, idx, sel) == Len(Survivors(pl, sel)) = 0

\* newPlaylist.length === 0 || (currentPlayingTrack && selectedTrackIds.has(...))
DeleteStops(pl, idx, sel) ==
  Len(Survivors(pl, sel)) = 0 \/ CurrentSelected(pl, idx, sel)

\* as UrlsToDelete, taking every track of the playlist
UrlsOfAllTracks(pl, sel) == {pl[i].url.n : i \in 1..Len(pl)}

\* playlist.filter(track => selectedTrackIds.has(track.id)), as the URLs to revoke
UrlsToDelete(pl, sel) == {pl[i].url.n : i \in {j \in 1..Len(pl) : pl[j].id \in sel}}

\* as EmptySelection, with the selection left as it is
KeptSelection == selectedTrackIds

\* setSelectedTrackIds(new Set())
EmptySelection == {}

\* as Proceeds, with the answer ignored
ProceedsOnAnyAnswer(answer) == TRUE

\* if (!window.confirm(...)) return;
Proceeds(answer) == answer

\* handleDeleteSelected; confirmed is the answer of window.confirm
HandleDeleteSelected(confirmed) ==
  /\ ~crashed
  /\ selectedTrackIds # {}
  /\ IF ~Proceeds(confirmed)
     THEN UNCHANGED <<playlist, currentTrackIndex, isPlaying, currentTime,
                      duration, selectedTrackIds, audio, audioContext,
                      analyserNode, eqFilters, elementBound, crashed,
                      playRejected, timers>>
     ELSE LET sel == selectedTrackIds
              \* audio.pause(); audio.src = '';
              a == IF CurrentSelected(playlist, currentTrackIndex, sel)
                   THEN LoadSrc(Pause(audio), NoSrc)
                   ELSE audio
              stops == DeleteStops(playlist, currentTrackIndex, sel)
          IN /\ Commit(a, Survivors(playlist, sel),
                       DeleteIndex(playlist, currentTrackIndex, sel),
                       IF stops THEN FALSE ELSE isPlaying, TRUE)
             /\ selectedTrackIds' = EmptySelection
             /\ currentTime' = IF stops THEN 0 ELSE currentTime
             /\ duration' = IF stops THEN 0 ELSE duration
             \* setTimeout(() => tracksToDelete.forEach(revokeObjectURL), 0)
             /\ timers' = Append(timers, UrlsToDelete(playlist, sel))
  /\ lastOp' = IF confirmed THEN Op("delete") ELSE EnvOp("declined")
  /\ UNCHANGED <<searchTerm, sortConfig, eqGains, revoked>>
  /\ UNCHANGED <<repeatMode, isShuffled, endedFor, batches, nextUrl, now>>

\* The oldest pending timer of a bulk delete fires, also after the component
\* tree is gone: URL.revokeObjectURL(track.url) for each deleted track
RevokeTimer ==
  /\ Len(timers) > 0
  /\ revoked' = [n \in DOMAIN revoked |->
                   IF n \in Head(timers) THEN revoked[n] + 1 ELSE revoked[n]]
  /\ timers' = Tail(timers)
  /\ lastOp' = EnvOp("revoke")
  /\ UNCHANGED <<playlist, currentTrackIndex, isPlaying, currentTime, duration,
                 repeatMode, isShuffled, selectedTrackIds, searchTerm,
                 sortConfig, eqGains, audio, playRejected, endedFor,
                 audioContext, analyserNode, eqFilters, elementBound, crashed,
                 batches, nextUrl, now>>

\* ----------------------------------------------------- view and equalizer
\* onChange of the search box: setSearchTerm(e.target.value)
SetSearchTerm(term) ==
  /\ ~crashed
  /\ term # searchTerm
  /\ searchTerm' = term
  /\ lastOp' = EnvOp("search")
  /\ UNCHANGED <<playlist, currentTrackIndex, isPlaying, currentTime, duration,
                 repeatMode, isShuffled, selectedTrackIds, sortConfig, eqGains,
                 audio, playRejected, endedFor, audioContext, analyserNode,
                 eqFilters, elementBound, crashed, batches, nextUrl, revoked,
                 timers, now>>

\* the values a slider of the equalizer is set to
GainValues == {0, 12}

\* The equalizer calls setGains with the gain of one band changed;
\* useEffect(eqGains) then writes every stored gain to the live filters
SetGains(band, value) ==
  /\ ~crashed
  /\ value # eqGains[band]
  /\ eqGains' = [eqGains EXCEPT ![band] = value]
  /\ eqFilters' = [i \in 1..Len(eqFilters) |-> eqGains'[i]]
  /\ lastOp' = EnvOp("gain")
  /\ UNCHANGED <<playlist, currentTrackIndex, isPlaying, currentTime, duration,
                 repeatMode, isShuffled, selectedTrackIds, searchTerm,
                 sortConfig, audio, playRejected, endedFor, audioContext,
                 analyserNode, elementBound, crashed, batches, nextUrl,
                 revoked, timers, now>>

HandleSort ==
  /\ ~crashed
  /\ sortConfig' = NextSortConfig(sortConfig)
  /\ lastOp' = EnvOp("sort")
  /\ UNCHANGED <<playlist, currentTrackIndex, isPlaying, currentTime, duration,
                 repeatMode, isShuffled, selectedTrackIds, searchTerm, eqGains,
                 audio, playRejected, endedFor, audioContext, analyserNode,
                 eqFilters, elementBound, crashed, batches, nextUrl, revoked,
                 timers, now>>

\* ------------------------------------------------------------------- Next
\* Ingestion of files that all carry the name "a"
Ingestion ==
  \/ \E k \in 1..MaxFiles : \E oks \in [1..k -> BOOLEAN] :
        PickFiles(k, oks, [i \in 1..k |-> PlainFile])
  \/ \E b \in 1..MaxBatches : \E i \in 1..MaxFiles : \E t \in 0..MaxClock :
        ProbeResolve(b, i, t)
  \/ \E b \in 1..MaxBatches : \E i \in 1..MaxFiles : \E t \in 0..MaxClock :
        BatchDone(b, i, t)

\* Ingestion of decodable files with any of the names
LibraryIngestion ==
  \/ \E k \in 1..MaxFiles : \E files \in [1..k -> FileNames] :
        PickFiles(k, [i \in 1..k |-> TRUE], files)
  \/ \E b \in 1..MaxBatches : \E i \in 1..MaxFiles : \E t \in 0..MaxClock :
        ProbeResolve(b, i, t)
  \/ \E b \in 1..MaxBatches : \E i \in 1..MaxFiles : \E t \in 0..MaxClock :
        BatchDone(b, i, t)

Transport ==
  \/ HandleNext
  \/ HandlePrev
  \/ HandlePlayPause
  \/ \E id \in AllIds : HandleSelectTrack(id)

Modes ==
  \/ ToggleRepeatMode
  \/ ToggleShuffle

MediaEvents ==
  \/ Progress
  \/ LoadedMetadata
  \/ HandleTrackEnd

BulkDelete ==
  \/ \E id \in AllIds : HandleToggleSelection(id)
  \/ HandleToggleSelectAll
  \/ \E confirmed \in BOOLEAN : HandleDeleteSelected(confirmed)

View ==
  \/ \E term \in SearchTerms : SetSearchTerm(term)
  \/ HandleSort

Equalizer ==
  \E band \in 1..MaxBand : \E value \in GainValues : SetGains(band, value)

Next ==
  \/ LibraryIngestion
  \/ Transport
  \/ Modes
  \/ MediaEvents
  \/ BulkDelete
  \/ RevokeTimer
  \/ View
  \/ Equalizer

\* The whole component
Spec == Init /\ [][Next]_vars

\* The states right after the first batch, of k files picked when the playlist
\* was empty, has been appended: every probe resolved at clock reading 0, the
\* append selected index 0 and set the playing flag, and the playback effect
\* built the audio context and called play() on the first track.
LoadedState(k, oks, files) ==
    LET batch == [wasEmpty |-> TRUE,
                  urls |-> [i \in 1..k |-> Url(i, oks[i])],
                  files |-> files,
                  at |-> [i \in 1..k |-> 0]]
        first == Url(1, oks[1])
    IN /\ playlist = Appended(<<>>, NewTracks(batch))
       /\ currentTrackIndex = 0
       /\ isPlaying = TRUE
       /\ currentTime = 0
       /\ duration = 0
       /\ repeatMode = NONE
       /\ isShuffled = FALSE
       /\ selectedTrackIds = {}
       /\ searchTerm = <<>>
       /\ sortConfig = [key |-> "name", direction |-> "asc"]
       /\ eqGains = [i \in 1..NumBands |-> 0]
       /\ audio = PlayCall(LoadSrc([src |-> NoSrc, paused |-> TRUE,
                                    currentTime |-> 0], first))
       /\ playRejected = ~first.ok
       /\ endedFor = NoSrc
       /\ audioContext = "open"
       /\ analyserNode = "node"
       /\ eqFilters = [i \in 1..NumBands |-> 0]
       /\ elementBound = TRUE
       /\ crashed = FALSE
       /\ batches = <<>>
       /\ nextUrl = k
       /\ revoked = [n \in 1..MaxFiles |-> 0]
       /\ timers = <<>>
       /\ now = 0
       /\ lastOp = [op |-> "append", idx |-> NULL, len |-> 0, playing |-> FALSE,
                    atEnd |-> FALSE, shown |-> <<0, 0>>]

\* ... of files that all carry the name "a": names matter to the view only
InitLoaded ==
  \E k \in 1..MaxFiles : \E oks \in [1..k -> BOOLEAN] :
    LoadedState(k, oks, [i \in 1..k |-> PlainFile])

\* ... of decodable files with any of the names
InitLibrary ==
  \E k \in 1..MaxFiles : \E files \in [1..k -> FileNames] :
    LoadedState(k, [i \in 1..k |-> TRUE], files)

\* ... of decodable files that all carry the name "a"
InitPlayable ==
  \E k \in 1..MaxFiles :
    LoadedState(k, [i \in 1..k |-> TRUE], [i \in 1..k |-> PlainFile])

\* The states right after the first batch, of k >= 2 files, was appended and
\* its first track, the current one, was then selected and bulk-deleted
InitIdle ==
  \E k \in 2..MaxFiles : \E oks \in [1..k -> BOOLEAN] :
    LET batch == [wasEmpty |-> TRUE,
                  urls |-> [i \in 1..k |-> Url(i, oks[i])],
                  files |-> [i \in 1..k |-> PlainFile],
                  at |-> [i \in 1..k |-> 0]]
        loaded == Appended(<<>>, NewTracks(batch))
        sel == {At(loaded, 0).id}
    IN /\ playlist = Survivors(loaded, sel)
       /\ currentTrackIndex = DeleteIndex(loaded, 0, sel)
       /\ isPlaying = FALSE
       /\ currentTime = 0
       /\ duration = 0
       /\ repeatMode = NONE
       /\ isShuffled = FALSE
       /\ selectedTrackIds = {}
       /\ searchTerm = <<>>
       /\ sortConfig = [key |-> "name", direction |-> "asc"]
       /\ eqGains = [i \in 1..NumBands |-> 0]
       /\ audio = [src |-> NoSrc, paused |-> TRUE, currentTime |-> 0]
       /\ playRejected = FALSE
       /\ endedFor = NoSrc
       /\ audioContext = "open"
       /\ analyserNode = "node"
       /\ eqFilters = [i \in 1..NumBands |-> 0]
       /\ elementBound = TRUE
       /\ crashed = FALSE
       /\ batches = <<>>
       /\ nextUrl = k
       /\ revoked = [n \in 1..MaxFiles |-> 0]
       /\ timers = <<UrlsToDelete(loaded, sel)>>
       /\ now = 0
       /\ lastOp = [op |-> "delete", idx |-> 0, len |-> k, playing |-> TRUE,
                    atEnd |-> FALSE, shown |-> <<0, 0>>]

\* Ingestion against the bulk delete of everything listed: the operations that
\* change the playlist
NextBatch ==
  \/ Ingestion
  \/ HandleToggleSelectAll
  \/ \E confirmed \in BOOLEAN : HandleDeleteSelected(confirmed)
SpecBatch == Init /\ [][NextBatch]_vars

\* Ingestion against the handlers that change the playlist, the current index
\* and the playing flag, with the modes left as they start
NextIngest ==
  \/ Ingestion
  \/ HandlePlayPause
  \/ HandleNext
  \/ HandleToggleSelectAll
  \/ \E confirmed \in BOOLEAN : HandleDeleteSelected(confirmed)
SpecIngest == Init /\ [][NextIngest]_vars

\* The transport on a loaded playlist: handlers, modes and media events
NextTransport == Transport \/ Modes \/ MediaEvents
SpecTransport == (InitLoaded \/ InitIdle) /\ [][NextTransport]_vars

\* The bulk delete on a loaded playlist that is being played
NextDelete ==
  \/ BulkDelete
  \/ HandleNext
  \/ HandlePlayPause
  \/ Progress
  \/ LoadedMetadata
SpecDelete == InitLoaded /\ [][NextDelete]_vars

\* The list on a loaded playlist of named tracks: the filter, the order, and
\* the handlers reached from the list and the play button
NextView ==
  \/ View
  \/ \E id \in AllIds : HandleSelectTrack(id)
  \/ HandlePlayPause
SpecView == InitLibrary /\ [][NextView]_vars

\* The transport before anything was loaded and on a loaded playlist that the
\* bulk delete can empty
NextEmpty ==
  \/ Transport
  \/ Modes
  \/ HandleToggleSelectAll
  \/ \E confirmed \in BOOLEAN : HandleDeleteSelected(confirmed)
SpecEmpty == (Init \/ InitLoaded) /\ [][NextEmpty]_vars

\* Ingestion, playback and the bulk delete with its timers
NextRevoke ==
  \/ Ingestion
  \/ BulkDelete
  \/ RevokeTimer
  \/ HandlePlayPause
  \/ HandleNext
SpecRevoke == Init /\ [][NextRevoke]_vars
\* the event loop runs every callback that setTimeout(..., 0) has scheduled
SpecRevokeFair == SpecRevoke /\ WF_vars(RevokeTimer)

\* The signal chain: ingestion and playback that build it, the bulk delete
\* that empties the playlist, and the equalizer
NextChain ==
  \/ Ingestion
  \/ HandlePlayPause
  \/ HandleNext
  \/ HandleToggleSelectAll
  \/ \E confirmed \in BOOLEAN : HandleDeleteSelected(confirmed)
  \/ Equalizer
SpecChain == Init /\ [][NextChain]_vars

\* The selection on a loaded playlist of named tracks: the check boxes, the
\* filter and the order, the bulk delete, and further files coming in
NextSelect == Ingestion \/ View \/ BulkDelete
SpecSelect == InitLibrary /\ [][NextSelect]_vars

\* The current index and the playing flag on a loaded playlist of decodable
\* tracks: further files coming in, the transport, the modes, the element
\* playing to the end of its track, and the bulk delete of every track shown
NextIndex ==
  \/ Ingestion
  \/ Transport
  \/ Modes
  \/ Progress
  \/ HandleTrackEnd
  \/ HandleToggleSelectAll
  \/ \E confirmed \in BOOLEAN : HandleDeleteSelected(confirmed)
SpecIndex == InitPlayable /\ [][NextIndex]_vars


\* ============================================================= properties
\* A step that is the confirmed bulk delete
DeleteStep == lastOp'.op = "delete"

\* C1: a bulk delete whose selection contains the current track's id leaves the
\* transport Idle: no current index, playing flag false, elapsed time and
\* duration 0, also when other tracks survive.
C1_DeleteCurrentGoesIdle ==
  [][(DeleteStep /\ CurrentSelected(playlist, currentTrackIndex, selectedTrackIds))
       => /\ currentTrackIndex' = NULL
          /\ isPlaying' = FALSE
          /\ currentTime' = 0
          /\ duration' = 0]_vars

\* the current track was deleted while it was playing, with an elapsed time and
\* a duration shown, and other tracks survive
C1_Witness ==
  /\ lastOp.op = "delete"
  /\ lastOp.idx # NULL
  /\ lastOp.playing
  /\ lastOp.shown = <<TrackLen, TrackLen>>
  /\ Len(playlist) > 0
  /\ Len(playlist) < lastOp.len
  /\ currentTrackIndex = NULL

\* C2: a bulk delete of a non-empty selection that does not contain the current
\* track's id leaves the current index on a track with the same id, and leaves
\* the playing flag as it was.
C2_DeleteOthersKeepsCurrent ==
  [][(/\ DeleteStep
      /\ HasTrack(playlist, currentTrackIndex)
      /\ At(playlist, currentTrackIndex).id \notin selectedTrackIds)
       => /\ HasTrack(playlist', currentTrackIndex')
          /\ At(playlist', currentTrackIndex').id = At(playlist, currentTrackIndex).id
          /\ isPlaying' = isPlaying]_vars

\* tracks before the current one were deleted while it played: its index shifted
C2_Witness ==
  /\ lastOp.op = "delete"
  /\ lastOp.idx # NULL
  /\ lastOp.playing
  /\ isPlaying
  /\ Len(playlist) < lastOp.len
  /\ HasTrack(playlist, currentTrackIndex)
  /\ currentTrackIndex < lastOp.idx


\* A step that appends a batch, and the batch it appends
AppendStep == lastOp'.op = "append"
IsAppendOf(b) == b \in 1..Len(batches) /\ batches' = RemoveAt(batches, b)

\* C3: a batch of K files is appended in one step as exactly K tracks at the end
\* of the playlist, in input order, whatever the order in which its probes
\* resolved and whichever failed (a failed probe gives duration 0); no other
\* step adds a track, and no track of a batch still in flight is in the playlist.
C3_BatchAppendedWhole ==
  [][/\ IF AppendStep
        THEN \E b \in 1..Len(batches) :
               LET urls == batches[b].urls
                   base == Len(playlist)
               IN /\ IsAppendOf(b)
                  /\ Len(playlist') = base + Len(urls)
                  /\ SubSeq(playlist', 1, base) = playlist
                  /\ \A j \in 1..Len(urls) :
                       /\ playlist'[base + j].url = urls[j]
                       /\ playlist'[base + j].id[2] = j - 1
                       /\ playlist'[base + j].duration =
                            IF urls[j].ok THEN TrackLen ELSE 0
        ELSE Urls(playlist') \subseteq Urls(playlist)
     /\ \A b \in 1..Len(batches') :
          \A j \in 1..Len(batches'[b].urls) :
            batches'[b].urls[j] \notin Urls(playlist')]_vars

\* a batch of two files was appended after a batch picked later than it: its
\* second probe resolved before its first, and its first probe failed
C3_Witness ==
  /\ lastOp.op = "append"
  /\ lastOp.len = 1
  /\ Len(playlist) = 3
  /\ playlist[1].url.n = 3
  /\ playlist[2].url.n = 1 /\ playlist[3].url.n = 2
  /\ playlist[2].id[1] > playlist[3].id[1]
  /\ playlist[2].duration = 0 /\ playlist[3].duration = TrackLen

\* C4: an append triggers auto-play of the first track (index 0, playing)
\* exactly when the playlist was empty immediately before the append; an
\* append onto a non-empty playlist leaves index and playing flag alone.
C4_AutoPlayIffEmptyBefore ==
  [][AppendStep =>
       IF Len(playlist) = 0
       THEN currentTrackIndex' = 0 /\ isPlaying' = TRUE
       ELSE currentTrackIndex' = currentTrackIndex /\ isPlaying' = isPlaying]_vars

\* handleNext applied n times to an index, with shuffle off
RECURSIVE NextTimes(_, _, _, _)
NextTimes(n, len, idx, rep) ==
  IF n = 0 THEN idx
  ELSE NextTimes(n - 1, len, NextStep(len, idx, TRUE, FALSE, rep, 0).idx, rep)

CycleCase ==
  /\ Len(playlist) > 0
  /\ HasTrack(playlist, currentTrackIndex)
  /\ ~isShuffled
  /\ repeatMode = ALL

\* C5 as stated: with shuffle off and repeat ALL, length+1 applications of
\* advance(next) return the current index to where it started.
C5_CycleAfterLengthPlusOne ==
  CycleCase =>
    NextTimes(Len(playlist) + 1, Len(playlist), currentTrackIndex, repeatMode)
      = currentTrackIndex

\* C5 as amended: with shuffle off and repeat ALL, exactly length applications
\* of advance(next) return the current index to where it started, and no
\* smaller positive number of applications does.
C5_CycleAfterLength ==
  CycleCase =>
    /\ NextTimes(Len(playlist), Len(playlist), currentTrackIndex, repeatMode)
         = currentTrackIndex
    /\ \A n \in 1..(Len(playlist) - 1) :
         NextTimes(n, Len(playlist), currentTrackIndex, repeatMode)
           # currentTrackIndex

\* next was pressed on the last of several tracks under repeat ALL and wrapped
C5_Witness ==
  /\ lastOp.op = "next"
  /\ CycleCase
  /\ Len(playlist) >= 2
  /\ currentTrackIndex = 0
  /\ isPlaying

\* C6: advance(prev) on a non-empty playlist sets the playing flag, and sets
\* the index to length-1 from index 0 or from no current track, in every
\* repeat mode; from any other index it decrements it.
C6_PrevWraps ==
  [][(lastOp'.op = "prev" /\ Len(playlist) > 0)
       => /\ isPlaying' = TRUE
          /\ playlist' = playlist
          /\ currentTrackIndex' =
               IF currentTrackIndex = 0 \/ currentTrackIndex = NULL
               THEN Len(playlist) - 1
               ELSE currentTrackIndex - 1]_vars

\* prev wrapped from index 0 to the last of several tracks without repeat
C6_Witness ==
  /\ lastOp.op = "prev"
  /\ lastOp.idx = 0
  /\ lastOp.len >= 2
  /\ repeatMode = NONE
  /\ currentTrackIndex = lastOp.len - 1
  /\ isPlaying

\* A step that delivers the 'ended' event of the current track, which is being
\* played and sits at its end
NaturalEndStep ==
  /\ lastOp'.op = "ended"
  /\ isPlaying
  /\ HasTrack(playlist, currentTrackIndex)
  /\ audio.src = At(playlist, currentTrackIndex).url
  /\ NaturalEnd

\* C7: with shuffle off and repeat ALL, the natural end of the track at index
\* i leaves the element playing the track at (i+1) mod length from its start,
\* playing flag true (for a next track the host can play).
C7_RepeatAllLoops ==
  [][(NaturalEndStep /\ repeatMode = ALL /\ ~isShuffled)
       => LET j == (currentTrackIndex + 1) % Len(playlist)
          IN At(playlist, j).url.ok
               => /\ currentTrackIndex' = j
                  /\ isPlaying' = TRUE
                  /\ audio'.src = At(playlist, j).url
                  /\ audio'.currentTime = 0
                  /\ Sounding(audio')]_vars

\* C8: with repeat ONE, the natural end of the current track leaves the index
\* unchanged, puts the element back at 0 playing the same source, and leaves
\* the playing flag true.
C8_RepeatOneRestarts ==
  [][(NaturalEndStep /\ repeatMode = ONE)
       => /\ currentTrackIndex' = currentTrackIndex
          /\ playlist' = playlist
          /\ isPlaying' = TRUE
          /\ audio'.src = audio.src
          /\ audio'.currentTime = 0
          /\ Sounding(audio')]_vars

\* the current track of several ended under repeat ONE and is playing again
C8_Witness ==
  /\ lastOp.op = "ended"
  /\ lastOp.atEnd
  /\ lastOp.playing
  /\ repeatMode = ONE
  /\ Len(playlist) >= 2
  /\ currentTrackIndex = lastOp.idx
  /\ Sounding(audio)

\* C9: an 'ended' event delivered right after the user changed the current
\* track (next, prev, selectTrack), fired for another track than the current
\* one, leaves the current index where the user put it.
C9_StaleEndedIgnored ==
  [][(/\ lastOp'.op = "ended"
      /\ lastOp.op \in {"next", "prev", "select"}
      /\ HasTrack(playlist, currentTrackIndex)
      /\ At(playlist, currentTrackIndex).url # endedFor)
       => currentTrackIndex' = currentTrackIndex]_vars

\* C10: when the host rejects the play attempt for the current track, the
\* transport is Ready: a current track, playing flag false.
C10_RejectedPlayIsReady ==
  playRejected => (currentTrackIndex # NULL /\ ~isPlaying)

\* C11: selectTrack(id), in any transport state: when a track with that id is
\* in the playlist, the current index becomes a position of the playlist (in
\* insertion order, whatever the filter text and the sort configuration) that
\* holds that id, and the playing flag becomes true; when no track has the
\* id, playlist, current index and playing flag are unchanged.
C11_SelectTrackByCanonicalPosition ==
  [][lastOp'.op = "select" =>
       \A id \in AllIds :
         HandleSelectTrack(id) =>
           IF id \in Ids(playlist)
           THEN /\ playlist' = playlist
                /\ HasTrack(playlist, currentTrackIndex')
                /\ At(playlist, currentTrackIndex').id = id
                /\ isPlaying' = TRUE
           ELSE UNCHANGED <<playlist, currentTrackIndex, isPlaying>>]_vars

\* a track was selected while paused, under a filter and a descending order in
\* which it is the first row shown though it is the last track of the playlist
C11_Witness ==
  /\ lastOp.op = "select"
  /\ searchTerm # <<>>
  /\ sortConfig.direction = "desc"
  /\ Len(playlist) = MaxFiles
  /\ currentTrackIndex = Len(playlist) - 1
  /\ isPlaying
  /\ LET view == DisplayedPlaylist(playlist, searchTerm, sortConfig)
     IN /\ Len(view) >= 2
        /\ view[1] = At(playlist, currentTrackIndex)

\* C12: in every reachable state no two tracks of the playlist share an id,
\* whatever the number of batches, the order in which their probes resolve
\* and the clock readings at which they resolve.
C12_IdsUnique ==
  \A i, j \in 1..Len(playlist) : playlist[i].id = playlist[j].id => i = j

\* C13: after every step (toggle of a row, select-all, change of the filter
\* or the order, ingestion, bulk delete) the selection holds only ids of
\* tracks in the playlist; in particular the step that removes tracks leaves
\* none of the removed ids in the selection.
C13_SelectionWithinPlaylist ==
  [][/\ selectedTrackIds' \subseteq Ids(playlist')
     /\ selectedTrackIds' \cap (Ids(playlist) \ Ids(playlist')) = {}]_vars

\* tracks were selected, then hidden by a filter that shows no row, then
\* deleted, and other tracks survive
C13_Witness ==
  /\ lastOp.op = "delete"
  /\ searchTerm # <<>>
  /\ Len(DisplayedPlaylist(playlist, searchTerm, sortConfig)) = 0
  /\ Len(playlist) > 0
  /\ Len(playlist) < lastOp.len
  /\ selectedTrackIds = {}

\* term occurs in s, letters compared without regard to case
OccursIn(term, s) ==
  \E i \in 0..(Len(s) - Len(term)) :
    \A k \in 1..Len(term) : LowerUnit(s[i + k]) = LowerUnit(term[k])

\* C14: a change of the filter text or of the sort configuration leaves the
\* playlist (and its order), the current index and the playing flag as they
\* are; the view holds only tracks of the playlist, each at most once; and a
\* filter text that occurs in no track's name or artist, case ignored, gives
\* an empty view.
C14_ViewLeavesPlaylistAlone ==
  [][/\ lastOp'.op \in {"search", "sort"}
          => UNCHANGED <<playlist, currentTrackIndex, isPlaying>>
     /\ \A view \in {DisplayedPlaylist(playlist', searchTerm', sortConfig')} :
           /\ \A i \in 1..Len(view) :
                \E j \in 1..Len(playlist') : playlist'[j] = view[i]
           /\ \A i, j \in 1..Len(view) : view[i] = view[j] => i = j
           /\ (\A j \in 1..Len(playlist') :
                  /\ ~OccursIn(searchTerm', playlist'[j].name)
                  /\ ~OccursIn(searchTerm', playlist'[j].artist))
                => Len(view) = 0]_vars

\* a filter text that matches no track was typed while the last of several
\* tracks was playing: the list is empty, the transport as before
C14_Witness ==
  /\ lastOp.op = "search"
  /\ Len(playlist) = MaxFiles
  /\ currentTrackIndex = MaxFiles - 1
  /\ isPlaying
  /\ searchTerm # <<>>
  /\ Len(DisplayedPlaylist(playlist, searchTerm, sortConfig)) = 0

\* a sequence back to front
Reverse(s) == [i \in 1..Len(s) |-> s[Len(s) + 1 - i]]

\* no two tracks have the same name, case ignored
DistinctNames(pl) ==
  \A i, j \in 1..Len(pl) :
    ToLowerCase(pl[i].name) = ToLowerCase(pl[j].name) => i = j

\* C15: for a playlist whose track names are pairwise distinct ignoring case,
\* the view sorted by name descending is the reverse of the view sorted by
\* name ascending, under the same filter.
C15_DescendingIsReverse ==
  DistinctNames(playlist) =>
    \A asc \in {DisplayedPlaylist(playlist, searchTerm,
                                  [key |-> "name", direction |-> "asc"])} :
      DisplayedPlaylist(playlist, searchTerm,
                        [key |-> "name", direction |-> "desc"]) = Reverse(asc)

\* the sort button switched the order to name descending on a playlist of
\* distinct names that was in neither order, with every track shown
C15_Witness ==
  /\ lastOp.op = "sort"
  /\ sortConfig = [key |-> "name", direction |-> "desc"]
  /\ DistinctNames(playlist)
  /\ Len(playlist) = MaxFiles
  /\ \A view \in {DisplayedPlaylist(playlist, searchTerm, sortConfig)} :
       /\ Len(view) = MaxFiles
       /\ view # playlist
       /\ view # Reverse(playlist)

\* C16: on an empty playlist play/pause, next, prev and selectTrack of any id
\* change nothing: the playlist stays empty, the current index null, the
\* playing flag false, the element and the chain as they were, and nothing
\* throws.
C16_EmptyPlaylistNoOps ==
  [][(Len(playlist) = 0 /\ lastOp'.op \in {"playpause", "next", "prev", "select"})
       => /\ playlist' = <<>>
          /\ currentTrackIndex' = NULL
          /\ isPlaying' = FALSE
          /\ crashed' = FALSE
          /\ UNCHANGED <<audio, audioContext, currentTime, duration>>]_vars

\* next was pressed under repeat ALL on a playlist that a bulk delete emptied
C16_Witness ==
  /\ lastOp.op = "next"
  /\ Len(playlist) = 0
  /\ Len(timers) > 0
  /\ repeatMode = ALL
  /\ currentTrackIndex = NULL
  /\ ~isPlaying

\* C17: a bulk delete whose confirmation is declined changes nothing: the
\* playlist, the selection, the current index, the playing flag, the element
\* and its source stay as they are, no object URL is revoked and no
\* revocation is scheduled.
C17_DeclinedDeleteChangesNothing ==
  [][lastOp'.op = "declined"
       => UNCHANGED <<playlist, selectedTrackIds, currentTrackIndex, isPlaying,
                      currentTime, duration, audio, revoked, timers>>]_vars

\* the delete of a selection holding the playing current track and another
\* track was declined
C17_Witness ==
  /\ lastOp.op = "declined"
  /\ Cardinality(selectedTrackIds) >= 2
  /\ CurrentSelected(playlist, currentTrackIndex, selectedTrackIds)
  /\ isPlaying
  /\ audio.src = At(playlist, currentTrackIndex).url
  /\ ~audio.paused
  /\ Len(timers) = 0

\* C18: after a failure to construct the signal chain the component is still
\* there, in a degraded state, and the current track, if the host can decode
\* it, is played without the chain.
C18_ChainFailureDegrades ==
  \* crashed: setupAudioContext threw, the only throw of the component
  (/\ crashed
   /\ isPlaying
   /\ HasTrack(playlist, currentTrackIndex)
   /\ At(playlist, currentTrackIndex).url.ok)
    => (audio.src = At(playlist, currentTrackIndex).url /\ ~audio.paused)

\* how often an object URL was or will be revoked: the calls made, and the
\* pending timers that hold it
Releases(n) == revoked[n] + Cardinality({i \in 1..Len(timers) : n \in timers[i]})

\* the object URL was created and its track has left the playlist
Deleted(n) ==
  /\ n <= nextUrl
  /\ \A i \in 1..Len(playlist) : playlist[i].url.n # n
  /\ \A b \in 1..Len(batches) :
       \A i \in 1..Len(batches[b].urls) : batches[b].urls[i].n # n

LocatorsSafe ==
  /\ audio.src # NoSrc => revoked[audio.src.n] = 0
  /\ \A n \in DOMAIN revoked : Releases(n) = IF Deleted(n) THEN 1 ELSE 0

\* C19: the element's source is never an object URL that was revoked; the
\* bulk delete of the current track pauses the element and clears its source
\* in the delete step itself, in which nothing is revoked yet; the URL of each
\* deleted track is revoked once (by a call made or by one pending timer),
\* never twice, and in the end by a call made; no URL of a track in the
\* playlist is or will be revoked.
C19_LocatorsReleasedSafely ==
  /\ [][/\ LocatorsSafe'
        /\ (DeleteStep /\ CurrentSelected(playlist, currentTrackIndex, selectedTrackIds))
             => /\ audio'.paused
                /\ audio'.src = NoSrc
                /\ revoked' = revoked]_vars
  /\ \A n \in 1..MaxFiles : Deleted(n) ~> (revoked[n] = 1)

\* the current track was deleted and its URL has been revoked, with tracks
\* left in the playlist and the element without a source
C19_Witness ==
  /\ lastOp.op = "revoke"
  /\ Len(timers) = 0
  /\ \E n \in DOMAIN revoked : revoked[n] = 1
  /\ Len(playlist) > 0
  /\ currentTrackIndex = NULL
  /\ audio.src = NoSrc

\* C20: while a chain is open and the playlist stays non-empty, a step (play,
\* pause, track change, gain update, ingestion, delete of some tracks) keeps
\* that chain and constructs nothing; a chain comes into being only where
\* there was none; a step that empties the playlist while a chain is open
\* closes it and drops the analyser and the filters; and after every step an
\* empty playlist has no open chain.
C20_ChainLifecycle ==
  [][/\ (audioContext = "open" /\ Len(playlist') > 0)
          => /\ audioContext' = "open"
             /\ analyserNode' = analyserNode
             /\ Len(eqFilters') = Len(eqFilters)
             /\ elementBound' = elementBound
             /\ ~crashed'
     /\ (audioContext' = "open" /\ audioContext = "null")
          => /\ ~elementBound
             /\ analyserNode' = "node"
             /\ Len(eqFilters') = NumBands
     /\ (Len(playlist) > 0 /\ Len(playlist') = 0 /\ audioContext = "open")
          => /\ audioContext' = "null"
             /\ analyserNode' = "null"
             /\ eqFilters' = <<>>
     /\ Len(playlist') = 0 => audioContext' = "null"]_vars

\* a chain was built, a gain was changed, and the bulk delete that emptied
\* the playlist closed the chain
C20_Witness ==
  /\ lastOp.op = "delete"
  /\ lastOp.len > 0
  /\ Len(playlist) = 0
  /\ elementBound
  /\ eqGains[1] # 0
  /\ audioContext = "null"
  /\ analyserNode = "null"
  /\ eqFilters = <<>>

\* C21: after the playlist became empty and the chain was torn down, the
\* step that first plays a track of the newly non-empty playlist builds a
\* chain again: an open context, an analyser, a filter for every band, and
\* nothing throws.
C21_ChainRebuiltAfterTeardown ==
  [][(/\ ~crashed
      /\ elementBound
      /\ audioContext = "null"
      /\ isPlaying'
      /\ HasTrack(playlist', currentTrackIndex'))
       => /\ audioContext' = "open"
          /\ analyserNode' = "node"
          /\ Len(eqFilters') = NumBands
          /\ ~crashed']_vars

\* C22: with shuffle off and repeat NONE or ONE, next pressed on the last
\* track, and the end of a track under repeat NONE with the last track
\* current, do not wrap to index 0: the current index stays on the last
\* track and the playing flag becomes false (and where it was true, the
\* playback effect pauses the element).
C22_NoWrapWithoutRepeatAll ==
  [][(/\ Len(playlist) > 0
      /\ currentTrackIndex = Len(playlist) - 1
      /\ ~isShuffled
      /\ \/ lastOp'.op = "next" /\ repeatMode \in {NONE, ONE}
         \/ lastOp'.op = "ended" /\ repeatMode = NONE)
       => /\ playlist' = playlist
          /\ currentTrackIndex' = currentTrackIndex
          /\ isPlaying' = FALSE
          /\ isPlaying => audio'.paused]_vars

\* the last of several tracks played to its end under repeat NONE
C22_Witness ==
  /\ lastOp.op = "ended"
  /\ lastOp.atEnd
  /\ lastOp.playing
  /\ lastOp.len >= 2
  /\ lastOp.idx = lastOp.len - 1
  /\ repeatMode = NONE
  /\ ~isShuffled
  /\ currentTrackIndex = lastOp.idx
  /\ ~isPlaying

\* C23: whenever a chain is open, the gain of each live band filter equals
\* the stored gain of its band, also for gains stored before the chain was
\* constructed.
C23_FilterGainsFollowStoredGains ==
  audioContext = "open" =>
    /\ Len(eqFilters) = NumBands
    /\ \A i \in 1..NumBands : eqFilters[i] = eqGains[i]

\* C24: after any sequence of ingestion, play/pause, next (shuffled or not),
\* prev, selectTrack, track-ended events and bulk deletes, the current index is
\* null or a position of the playlist (0 <= index < length), and the playing
\* flag is set only while the current index is not null: it is never set on
\* an empty playlist.
C24_IndexValid ==
  /\ \/ currentTrackIndex = NULL
     \/ currentTrackIndex \in 0..(Len(playlist) - 1)
  /\ isPlaying => currentTrackIndex # NULL
  /\ isPlaying => Len(playlist) > 0

\* A bulk delete took tracks in front of the current one away while it was
\* playing: the index moved down with its track and the flag stayed set
C24_Witness ==
  /\ lastOp.op = "delete"
  /\ lastOp.playing
  /\ lastOp.idx > 0
  /\ Len(playlist) \in 1..(lastOp.len - 1)
  /\ currentTrackIndex \in 0..(lastOp.idx - 1)
  /\ isPlaying

====
